---- MODULE Spec2Model ----
(***************************************************************************)
(* Model of the notebook lab05_acs_summaries.ipynb: a data frame df read   *)
(* from a CSV file and the cells that summarise it (missingness report,    *)
(* describe, groupby, sort_values, size, median, reset_index, unstack).    *)
(*                                                                         *)
(* Every cell value of the frame is a float.  A float is modelled as an    *)
(* exact fraction <<n, d>> in lowest terms with d > 0; the missing value   *)
(* NaN is the pair <<0, 0>>.  The field "std" of a describe record holds   *)
(* the square of the standard deviation (the sample variance, ddof = 1),   *)
(* since the square root of a fraction is not a fraction.                  *)
(***************************************************************************)
EXTENDS Integers, Sequences, FiniteSets, TLC

(* ---------------------------- bounds ---------------------------------- *)
\* the most records a data set has
MaxRows == 3

\* the most records a data set has when the cells run in any order
MaxRowsAnyOrder == 1

(* ------------------------ the data dictionary ------------------------- *)
\* REGION "uses four levels"
NumRegion == 4

\* FES "partitions the population into 8 subgroups"
NumFES == 8

(* ------------------------- float arithmetic --------------------------- *)
NaN == <<0, 0>>

IsNaN(v) == v[2] = 0

Abs(n) == IF n < 0 THEN -n ELSE n

RECURSIVE GCD(_, _)
GCD(a, b) == IF b = 0 THEN a ELSE GCD(b, a % b)

Frac(n, d) ==
  IF d = 0 THEN NaN
  ELSE LET g == GCD(Abs(n), Abs(d))
           s == IF d < 0 THEN -1 ELSE 1
       IN <<(s * n) \div g, (s * d) \div g>>

Num(n) == <<n, 1>>

\* the least common multiple of the denominators c, d > 0
LCM(c, d) == (c \div GCD(c, d)) * d

FAdd(a, b) ==
  IF IsNaN(a) \/ IsNaN(b) THEN NaN
  ELSE LET l == LCM(a[2], b[2])
       IN Frac(a[1] * (l \div a[2]) + b[1] * (l \div b[2]), l)

FNeg(a) == <<-a[1], a[2]>>

FSub(a, b) == FAdd(a, FNeg(b))

FMul(a, b) == IF IsNaN(a) \/ IsNaN(b) THEN NaN
              ELSE Frac(a[1] * b[1], a[2] * b[2])

FDiv(a, b) == IF IsNaN(a) \/ IsNaN(b) THEN NaN
              ELSE Frac(a[1] * b[2], a[2] * b[1])

\* a < b and a <= b on floats; every comparison with NaN is false
FLess(a, b) == ~IsNaN(a) /\ ~IsNaN(b) /\ a[1] * b[2] < b[1] * a[2]

FLeq(a, b) == ~IsNaN(a) /\ ~IsNaN(b) /\ a[1] * b[2] <= b[1] * a[2]

(* --------------------------- sequences -------------------------------- *)
Range(s) == {s[i] : i \in 1..Len(s)}

RECURSIVE SumSeq(_)
SumSeq(s) == IF s = <<>> THEN Num(0) ELSE FAdd(Head(s), SumSeq(Tail(s)))

\* the values of s in ascending order (np.sort)
SortFloats(s) == SortSeq(s, FLess)

\* the least element of the non-empty set S of floats
FMin(S) == CHOOSE m \in S : \A v \in S : FLeq(m, v)

\* the elements of the set S of floats in ascending order (Index.sort)
RECURSIVE SortedSeqOf(_)
SortedSeqOf(S) ==
  IF S = {} THEN <<>> ELSE <<FMin(S)>> \o SortedSeqOf(S \ {FMin(S)})

\* lexical order on grouping keys (tuples of floats of one length)
RECURSIVE KeyLess(_, _)
KeyLess(k1, k2) ==
  IF k1 = <<>> \/ k2 = <<>> THEN FALSE
  ELSE \/ FLess(Head(k1), Head(k2))
       \/ Head(k1) = Head(k2) /\ KeyLess(Tail(k1), Tail(k2))

KeyMin(S) == CHOOSE m \in S : \A k \in S : k = m \/ KeyLess(m, k)

\* the keys of the set S in lexical order (groupby(sort = True))
RECURSIVE SortedKeys(_)
SortedKeys(S) ==
  IF S = {} THEN <<>> ELSE <<KeyMin(S)>> \o SortedKeys(S \ {KeyMin(S)})

(* ------------------------- Series operations -------------------------- *)
\* df[c]: the column c of the frame, one value per record, in record order
Column(frame, c) == [i \in 1..Len(frame.rows) |-> frame.rows[i][c]]

NotNaN(v) == ~IsNaN(v)

\* Dropna as fillna(0): a missing value is replaced, not removed
Dropna_fill0(s) ==
  [i \in 1..Len(s) |-> IF IsNaN(s[i]) THEN Num(0) ELSE s[i]]

\* Series.dropna(): the non-missing values, in their original order
Dropna(s) == SelectSeq(s, NotNaN)

\* IsnullMean with notnull for isnull: the proportion of present values
IsnullMean_notnull(s) ==
  FDiv(Num(Cardinality({i \in 1..Len(s) : ~IsNaN(s[i])})), Num(Len(s)))

\* Series.isnull().mean(): the mean of the boolean mask (NaN when empty)
IsnullMean(s) ==
  FDiv(Num(Cardinality({i \in 1..Len(s) : IsNaN(s[i])})), Num(Len(s)))

\* Mean as sum / max(count, 1): zero when nothing is left
Mean_zero(s) ==
  LET v == Dropna(s)
  IN IF v = <<>> THEN Num(0) ELSE FDiv(SumSeq(v), Num(Len(v)))

\* Series.mean(): NaN is skipped; NaN when nothing is left
Mean(s) == LET v == Dropna(s) IN FDiv(SumSeq(v), Num(Len(v)))

\* the sum of the squared deviations of the values of v from m
RECURSIVE SumSqDev(_, _)
SumSqDev(v, m) ==
  IF v = <<>> THEN Num(0)
  ELSE FAdd(FMul(FSub(Head(v), m), FSub(Head(v), m)), SumSqDev(Tail(v), m))

\* Series.var(): NaN is skipped, ddof = 1, NaN for fewer than two values
Var(s) ==
  LET v == Dropna(s)
  IN IF Len(v) < 2 THEN NaN
     ELSE FDiv(SumSqDev(v, Mean(v)), Num(Len(v) - 1))

\* Series.quantile(a / b): NaN is skipped, linear interpolation between
\* the two order statistics around position (n - 1) * a / b
Quantile(s, a, b) ==
  LET v == SortFloats(Dropna(s))
      n == Len(v)
      lo == ((n - 1) * a) \div b
      r == ((n - 1) * a) % b
  IN IF n = 0 THEN NaN
     ELSE IF r = 0 THEN v[lo + 1]
     ELSE FAdd(v[lo + 1], FMul(Frac(r, b), FSub(v[lo + 2], v[lo + 1])))

\* Series.min() and Series.max(): NaN is skipped
Min(s) == LET v == SortFloats(Dropna(s)) IN IF v = <<>> THEN NaN ELSE v[1]

Max(s) == LET v == SortFloats(Dropna(s)) IN IF v = <<>> THEN NaN ELSE v[Len(v)]

\* Describe with count = len(s): the missing values are counted
Describe_countall(s) ==
  [count |-> Num(Len(s)),
   mean  |-> Mean(s),
   std   |-> Var(s),
   min   |-> Min(s),
   q25   |-> Quantile(s, 1, 4),
   q50   |-> Quantile(s, 1, 2),
   q75   |-> Quantile(s, 3, 4),
   max   |-> Max(s)]

\* Series.describe() of a float column
Describe(s) ==
  [count |-> Num(Len(Dropna(s))),
   mean  |-> Mean(s),
   std   |-> Var(s),
   min   |-> Min(s),
   q25   |-> Quantile(s, 1, 4),
   q50   |-> Quantile(s, 1, 2),
   q75   |-> Quantile(s, 3, 4),
   max   |-> Max(s)]

\* Series.median()
Median(s) == Quantile(s, 1, 2)

(* ------------------------- groupby operations ------------------------- *)
\* the grouping key of a record for the grouping columns by
KeyOf(row, by) == [j \in 1..Len(by) |-> row[by[j]]]

HasNaN(k) == \E j \in 1..Len(k) : IsNaN(k[j])

\* the records that groupby keeps, in record order: dropna = True discards
\* every record with a missing value in a grouping column
Grouped(frame, by) ==
  LET Keep(row) == ~HasNaN(KeyOf(row, by)) IN SelectSeq(frame.rows, Keep)

\* the keys of the set S in some order
RECURSIVE AnyOrder(_)
AnyOrder(S) ==
  IF S = {} THEN <<>>
  ELSE LET k == CHOOSE m \in S : TRUE IN <<k>> \o AnyOrder(S \ {k})

\* GroupKeys with dropna = False: the keys with a missing component are
\* kept, after the others
GroupKeys_keepna(frame, by) ==
  LET all == {KeyOf(row, by) : row \in Range(frame.rows)}
  IN SortedKeys({k \in all : ~HasNaN(k)}) \o AnyOrder({k \in all : HasNaN(k)})

\* the group keys, in lexical order (sort = True)
GroupKeys(frame, by) ==
  SortedKeys({KeyOf(row, by) : row \in Range(Grouped(frame, by))})

\* the records of the group of key k, in record order
GroupRows(frame, by, k) ==
  LET InGroup(row) == KeyOf(row, by) = k
  IN SelectSeq(Grouped(frame, by), InGroup)

\* the values of column c in the group of key k, in record order
GroupColumn(frame, by, k, c) ==
  LET g == GroupRows(frame, by, k) IN [n \in 1..Len(g) |-> g[n][c]]

\* GroupSize with size() confused with count(): the records of the group
\* whose income is missing are not counted
GroupSize_count(frame, by) ==
  LET ks == GroupKeys(frame, by)
  IN [n \in 1..Len(ks) |->
        [key |-> ks[n],
         val |-> Num(Len(Dropna(GroupColumn(frame, by, ks[n], "HINCP"))))]]

\* df.groupby(by).size(): a Series indexed by group key
GroupSize(frame, by) ==
  LET ks == GroupKeys(frame, by)
  IN [n \in 1..Len(ks) |->
        [key |-> ks[n], val |-> Num(Len(GroupRows(frame, by, ks[n])))]]

\* GroupMedian without the groups that have no value of c to take a median of
GroupMedian_dropempty(frame, by, c) ==
  LET ks == GroupKeys(frame, by)
      all == [n \in 1..Len(ks) |->
                [key |-> ks[n], val |-> Median(GroupColumn(frame, by, ks[n], c))]]
      Keep(e) == ~IsNaN(e.val)
  IN SelectSeq(all, Keep)

\* df.groupby(by)[c].median(): a Series indexed by group key
GroupMedian(frame, by, c) ==
  LET ks == GroupKeys(frame, by)
  IN [n \in 1..Len(ks) |->
        [key |-> ks[n], val |-> Median(GroupColumn(frame, by, ks[n], c))]]

\* df.groupby(by)[c].describe(): a table with one row per group key
GroupDescribe(frame, by, c) ==
  LET ks == GroupKeys(frame, by)
  IN [n \in 1..Len(ks) |->
        [key |-> ks[n], val |-> Describe(GroupColumn(frame, by, ks[n], c))]]

\* the rows of tbl in the order p
Take(tbl, p) == [i \in 1..Len(tbl) |-> tbl[p[i]]]

Reverse(s) == [i \in 1..Len(s) |-> s[Len(s) + 1 - i]]

\* nargsort(v, kind = "quicksort", ascending = asc, na_position = "last"):
\* the positions of the values that are not NaN come first, ordered by
\* value; quicksort is not a stable sort, so the positions of equal values
\* come in any order; the positions of the NaN values follow, ascending.
\* The set of the possible results.
Nargsort(v, asc) ==
  LET n == Len(v)
      m == Cardinality({i \in 1..n : ~IsNaN(v[i])})
      Ordered(p) ==
        /\ \A i \in 1..m : ~IsNaN(v[p[i]])
        /\ \A i \in 1..(m - 1) :
             IF asc THEN FLeq(v[p[i]], v[p[i + 1]])
                    ELSE FLeq(v[p[i + 1]], v[p[i]])
        /\ \A i \in (m + 1)..(n - 1) : p[i] < p[i + 1]
  IN {p \in Permutations(1..n) : Ordered(p)}

\* the values of the field of the rows of tbl
FieldOf(tbl, field) == [i \in 1..Len(tbl) |-> tbl[i].val[field]]

\* SortValues with descending as the reverse of ascending: the rows whose
\* field is NaN come first when ascending = False
SortValues_reversed(tbl, field, asc) ==
  {IF asc THEN Take(tbl, p) ELSE Reverse(Take(tbl, p)) :
     p \in Nargsort(FieldOf(tbl, field), TRUE)}

\* SortValues with descending as the reverse of ascending and the rows
\* whose field is NaN moved to the end afterwards: they come in reverse
\* order when ascending = False
SortValues_nanreversed(tbl, field, asc) ==
  LET Defined(row) == ~IsNaN(row.val[field])
      Missing(row) == IsNaN(row.val[field])
      Fix(t) == SelectSeq(t, Defined) \o SelectSeq(t, Missing)
  IN {IF asc THEN Take(tbl, p) ELSE Fix(Reverse(Take(tbl, p))) :
        p \in Nargsort(FieldOf(tbl, field), TRUE)}

\* DataFrame.sort_values(by = field, ascending = asc): the rows of tbl in
\* an order nargsort gives.  The set of the possible results.
SortValues(tbl, field, asc) ==
  {Take(tbl, p) : p \in Nargsort(FieldOf(tbl, field), asc)}

\* Unstack with fill_value = 0: a cell without a key is 0
Unstack_fill0(ser) ==
  LET idx == SortedSeqOf({ser[n].key[1] : n \in 1..Len(ser)})
      cols == SortedSeqOf({ser[n].key[2] : n \in 1..Len(ser)})
      Cell(r, c) ==
        IF \E n \in 1..Len(ser) : ser[n].key = <<r, c>>
        THEN ser[CHOOSE n \in 1..Len(ser) : ser[n].key = <<r, c>>].val
        ELSE Num(0)
  IN [index |-> idx, columns |-> cols,
      data |-> [i \in 1..Len(idx) |->
                  [j \in 1..Len(cols) |-> Cell(idx[i], cols[j])]]]

\* Unstack over every level of the data dictionary, observed or not
Unstack_fullgrid(ser) ==
  LET idx == SortedSeqOf({Num(r) : r \in 1..NumRegion})
      cols == SortedSeqOf({Num(c) : c \in 1..NumFES})
      Cell(r, c) ==
        IF \E n \in 1..Len(ser) : ser[n].key = <<r, c>>
        THEN ser[CHOOSE n \in 1..Len(ser) : ser[n].key = <<r, c>>].val
        ELSE NaN
  IN [index |-> idx, columns |-> cols,
      data |-> [i \in 1..Len(idx) |->
                  [j \in 1..Len(cols) |-> Cell(idx[i], cols[j])]]]

\* Series.unstack() of a Series indexed by 2-component keys: the last key
\* component moves to the columns; the row labels and the column labels are
\* the sorted distinct components, and a cell without a key is NaN
Unstack(ser) ==
  LET idx == SortedSeqOf({ser[n].key[1] : n \in 1..Len(ser)})
      cols == SortedSeqOf({ser[n].key[2] : n \in 1..Len(ser)})
      Cell(r, c) ==
        IF \E n \in 1..Len(ser) : ser[n].key = <<r, c>>
        THEN ser[CHOOSE n \in 1..Len(ser) : ser[n].key = <<r, c>>].val
        ELSE NaN
  IN [index |-> idx, columns |-> cols,
      data |-> [i \in 1..Len(idx) |->
                  [j \in 1..Len(cols) |-> Cell(idx[i], cols[j])]]]

\* the key k without its last component, and its last component
Front(k) == SubSeq(k, 1, Len(k) - 1)

Last(k) == k[Len(k)]

\* Series.unstack() of a Series indexed by keys of three or more
\* components: the last component moves to the columns, the rows are
\* labelled by the sorted distinct remaining components
UnstackLast(ser) ==
  LET idx == SortedKeys({Front(ser[n].key) : n \in 1..Len(ser)})
      cols == SortedSeqOf({Last(ser[n].key) : n \in 1..Len(ser)})
      Cell(r, c) ==
        IF \E n \in 1..Len(ser) : ser[n].key = Append(r, c)
        THEN ser[CHOOSE n \in 1..Len(ser) : ser[n].key = Append(r, c)].val
        ELSE NaN
  IN [index |-> idx, columns |-> cols,
      data |-> [i \in 1..Len(idx) |->
                  [j \in 1..Len(cols) |-> Cell(idx[i], cols[j])]]]

\* SeriesUnstack that pivots two-component keys only
SeriesUnstack_strict(ser, nlevels) ==
  IF nlevels = 2 THEN [type |-> "ok", val |-> Unstack(ser)]
  ELSE [type |-> "AmbiguousFactorError", val |-> <<>>]

\* Series.unstack() of a Series whose index has nlevels levels: an index
\* that is not a MultiIndex (one grouping column) raises ValueError
\* ("index must be a MultiIndex to unstack"); otherwise the last level
\* moves to the columns
SeriesUnstack(ser, nlevels) ==
  IF nlevels = 1 THEN [type |-> "ValueError", val |-> <<>>]
  ELSE IF nlevels = 2 THEN [type |-> "ok", val |-> Unstack(ser)]
  ELSE [type |-> "ok", val |-> UnstackLast(ser)]

\* Series.reset_index() of a Series indexed by group keys of the columns by:
\* a frame with the key components as columns and the values in column "0"
ResetIndex(ser, by) ==
  [columns |-> by \o <<"0">>,
   rows |-> [n \in 1..Len(ser) |->
               [c \in Range(by) \cup {"0"} |->
                  IF c = "0" THEN ser[n].val
                  ELSE ser[n].key[CHOOSE j \in 1..Len(by) : by[j] = c]]]]

\* DataFrame.isnull().mean(): for every column, in column order, the
\* proportion of records whose value is missing
MissingnessReport(frame) ==
  [n \in 1..Len(frame.columns) |->
     [col |-> frame.columns[n],
      val |-> IsnullMean(Column(frame, frame.columns[n]))]]

(* ------------------------------ state --------------------------------- *)
VARIABLES
  df,            \* the data frame: [columns, rows]
  x,             \* the notebook variable x            (<<>> while unassigned)
  grp,           \* the notebook variable grp          (<<>> while unassigned)
  grp_median,    \* the notebook variable grp_median   (<<>> while unassigned)
  grp_sizes,     \* the notebook variable grp_sizes    (<<>> while unassigned)
  grp_size_tbl,  \* the notebook variable grp_size_tbl (<<>> while unassigned)
  gms,           \* the notebook variable gms          (<<>> while unassigned)
  out,           \* what the last executed cell displayed, or its error
  pc             \* the number of the last executed cell, 0 before the first

vars == <<df, x, grp, grp_median, grp_sizes, grp_size_tbl, gms, out, pc>>

CsvColumns == <<"REGION", "FES", "HINCP", "RNTP">>

\* The records of the CSV file in the model, in three families: households
\* of one region that differ in family type and income (stratifying on one
\* factor), households that differ in region, family type and income
\* (stratifying on two factors, some without a family type), and households
\* that differ in rent.
OneFactorRows ==
  [REGION : {Num(1)}, FES : {Num(1), Num(2), Num(3)},
   HINCP : {Num(1000), Num(2500), NaN}, RNTP : {NaN}]

TwoFactorRows ==
  [REGION : {Num(1), Num(2)}, FES : {Num(1), Num(2), NaN},
   HINCP : {Num(1000), NaN}, RNTP : {NaN}]

RentRows ==
  [REGION : {Num(1)}, FES : {Num(1)},
   HINCP : {Num(1000), NaN}, RNTP : {Num(500), Num(800), NaN}]

\* the tables of at most MaxRows records drawn from the set S
Tables(S) == UNION {[1..n -> S] : n \in 0..MaxRows}

\* pd.read_csv: the data frames the file may hold
Frames ==
  {[columns |-> CsvColumns, rows |-> r] :
     r \in Tables(OneFactorRows) \cup Tables(TwoFactorRows) \cup Tables(RentRows)}

Thousand == 1000

HasColumn(frame, c) == c \in Range(frame.columns)

\* SetColumn that appends a column label at every assignment
SetColumn_append(frame, c, ser) ==
  [columns |-> Append(frame.columns, c),
   rows |-> [i \in 1..Len(frame.rows) |->
               [k \in DOMAIN frame.rows[i] \cup {c} |->
                  IF k = c THEN ser[i] ELSE frame.rows[i][k]]]]

\* df[c] = ser: the column c is overwritten, or appended as the last column
SetColumn(frame, c, ser) ==
  [columns |-> IF HasColumn(frame, c) THEN frame.columns
               ELSE Append(frame.columns, c),
   rows |-> [i \in 1..Len(frame.rows) |->
               [k \in DOMAIN frame.rows[i] \cup {c} |->
                  IF k = c THEN ser[i] ELSE frame.rows[i][k]]]]

\* Series / number, element by element
DivSeries(ser, n) == [i \in 1..Len(ser) |-> FDiv(ser[i], Num(n))]

Shown(v) == [type |-> "ok", val |-> v]
Raised(e) == [type |-> e, val |-> <<>>]

Init ==
  /\ df \in Frames
  /\ x = <<>>
  /\ grp = <<>>
  /\ grp_median = <<>>
  /\ grp_sizes = <<>>
  /\ grp_size_tbl = <<>>
  /\ gms = <<>>
  /\ out = Shown(<<>>)
  /\ pc = 0

(* ------------------------------ cells --------------------------------- *)
\* df.isnull().mean()
CellIsnullMean ==
  /\ out' = Shown(MissingnessReport(df))
  /\ pc' = 1
  /\ UNCHANGED <<df, x, grp, grp_median, grp_sizes, grp_size_tbl, gms>>

\* x = df["RNTP"].dropna()
CellDropna ==
  /\ x' = <<Dropna(Column(df, "RNTP"))>>
  /\ out' = Shown(<<>>)
  /\ pc' = 2
  /\ UNCHANGED <<df, grp, grp_median, grp_sizes, grp_size_tbl, gms>>

\* x.size
CellXSize ==
  /\ out' = IF x = <<>> THEN Raised("NameError") ELSE Shown(Len(x[1]))
  /\ pc' = 3
  /\ UNCHANGED <<df, x, grp, grp_median, grp_sizes, grp_size_tbl, gms>>

\* df["HINCP"].describe()
CellDescribe ==
  /\ out' = Shown(Describe(Column(df, "HINCP")))
  /\ pc' = 4
  /\ UNCHANGED <<df, x, grp, grp_median, grp_sizes, grp_size_tbl, gms>>

\* df["HINCP_1000"] = df["HINCP"] / 1000 ; df["HINCP_1000"].describe()
CellThousands ==
  /\ df' = SetColumn(df, "HINCP_1000", DivSeries(Column(df, "HINCP"), Thousand))
  /\ out' = Shown(Describe(Column(df', "HINCP_1000")))
  /\ pc' = 5
  /\ UNCHANGED <<x, grp, grp_median, grp_sizes, grp_size_tbl, gms>>

\* CellGroupDescribe with the records without income dropped from df
\* itself first (dropna(subset = ..., inplace = True))
CellGroupDescribe_inplace ==
  /\ df' = [df EXCEPT !.rows =
              LET Keep(row) == ~IsNaN(row["HINCP"]) IN SelectSeq(@, Keep)]
  /\ out' = IF HasColumn(df, "HINCP_1000")
            THEN Shown(GroupDescribe(df', <<"FES">>, "HINCP_1000"))
            ELSE Raised("KeyError")
  /\ pc' = 6
  /\ UNCHANGED <<x, grp, grp_median, grp_sizes, grp_size_tbl, gms>>

\* df.groupby("FES")["HINCP_1000"].describe()
CellGroupDescribe ==
  /\ out' = IF HasColumn(df, "HINCP_1000")
            THEN Shown(GroupDescribe(df, <<"FES">>, "HINCP_1000"))
            ELSE Raised("KeyError")
  /\ pc' = 6
  /\ UNCHANGED <<df, x, grp, grp_median, grp_sizes, grp_size_tbl, gms>>

\* df.groupby("FES")["HINCP_1000"].describe().sort_values(by = "50%")
\* (ascending is the keyword of sort_values, True unless the reader sets it)
CellSortValues ==
  /\ IF HasColumn(df, "HINCP_1000")
     THEN \E asc \in BOOLEAN :
            \E t \in SortValues(GroupDescribe(df, <<"FES">>, "HINCP_1000"),
                                "q50", asc) :
              out' = Shown([ascending |-> asc, table |-> t])
     ELSE out' = Raised("KeyError")
  /\ pc' = 7
  /\ UNCHANGED <<df, x, grp, grp_median, grp_sizes, grp_size_tbl, gms>>

\* CellGroupby with a check that raises on a frame without records
CellGroupby_checked ==
  /\ IF df.rows = <<>>
     THEN out' = Raised("EmptyDatasetError") /\ UNCHANGED grp
     ELSE /\ grp' = <<[by |-> <<"REGION", "FES">>]>>
          /\ out' = Shown(GroupSize(df, grp'[1].by))
  /\ pc' = 8
  /\ UNCHANGED <<df, x, grp_median, grp_sizes, grp_size_tbl, gms>>

\* grp = df.groupby(["REGION", "FES"]) ; grp.size()
CellGroupby ==
  /\ grp' = <<[by |-> <<"REGION", "FES">>]>>
  /\ out' = Shown(GroupSize(df, grp'[1].by))
  /\ pc' = 8
  /\ UNCHANGED <<df, x, grp_median, grp_sizes, grp_size_tbl, gms>>

\* CellGrpMedian that falls back on the column HINCP when df has no
\* column HINCP_1000
CellGrpMedian_fallback ==
  /\ IF grp = <<>>
     THEN out' = Raised("NameError") /\ UNCHANGED grp_median
     ELSE /\ grp_median' =
               <<GroupMedian(df, grp[1].by,
                             IF HasColumn(df, "HINCP_1000") THEN "HINCP_1000"
                             ELSE "HINCP")>>
          /\ out' = Shown(grp_median'[1])
  /\ pc' = 9
  /\ UNCHANGED <<df, x, grp, grp_sizes, grp_size_tbl, gms>>

\* grp_median = grp["HINCP_1000"].median() ; grp_median
CellGrpMedian ==
  /\ IF grp = <<>>
     THEN out' = Raised("NameError") /\ UNCHANGED grp_median
     ELSE IF ~HasColumn(df, "HINCP_1000")
     THEN out' = Raised("KeyError") /\ UNCHANGED grp_median
     ELSE /\ grp_median' = <<GroupMedian(df, grp[1].by, "HINCP_1000")>>
          /\ out' = Shown(grp_median'[1])
  /\ pc' = 9
  /\ UNCHANGED <<df, x, grp, grp_sizes, grp_size_tbl, gms>>

\* grp_sizes = grp.size().reset_index() ; grp_sizes
CellGrpSizes ==
  /\ IF grp = <<>>
     THEN out' = Raised("NameError") /\ UNCHANGED grp_sizes
     ELSE /\ grp_sizes' = <<ResetIndex(GroupSize(df, grp[1].by), grp[1].by)>>
          /\ out' = Shown(grp_sizes'[1])
  /\ pc' = 10
  /\ UNCHANGED <<df, x, grp, grp_median, grp_size_tbl, gms>>

\* grp_size_tbl = grp.size().unstack() ; grp_size_tbl
CellGrpSizeTbl ==
  /\ IF grp = <<>>
     THEN out' = Raised("NameError") /\ UNCHANGED grp_size_tbl
     ELSE /\ grp_size_tbl' = <<Unstack(GroupSize(df, grp[1].by))>>
          /\ out' = Shown(grp_size_tbl'[1])
  /\ pc' = 11
  /\ UNCHANGED <<df, x, grp, grp_median, grp_sizes, gms>>

\* grp_median = grp["HINCP"].median() ; gms = grp_median.unstack() ; gms
CellGms ==
  /\ IF grp = <<>>
     THEN out' = Raised("NameError") /\ UNCHANGED <<grp_median, gms>>
     ELSE /\ grp_median' = <<GroupMedian(df, grp[1].by, "HINCP")>>
          /\ gms' = <<Unstack(grp_median'[1])>>
          /\ out' = Shown(gms'[1])
  /\ pc' = 12
  /\ UNCHANGED <<df, x, grp, grp_sizes, grp_size_tbl>>

\* the notebook run from top to bottom (Restart & Run All)
Next ==
  \/ pc = 0 /\ CellIsnullMean
  \/ pc = 1 /\ CellDropna
  \/ pc = 2 /\ CellXSize
  \/ pc = 3 /\ CellDescribe
  \/ pc = 4 /\ CellThousands
  \/ pc = 5 /\ CellGroupDescribe
  \/ pc = 6 /\ CellSortValues
  \/ pc = 7 /\ CellGroupby
  \/ pc = 8 /\ CellGrpMedian
  \/ pc = 9 /\ CellGrpSizes
  \/ pc = 10 /\ CellGrpSizeTbl
  \/ pc = 11 /\ CellGms

Spec == Init /\ [][Next]_vars

\* pd.read_csv for the notebook whose cells run in any order: the frames of
\* at most MaxRowsAnyOrder records
FramesAnyOrder ==
  {[columns |-> CsvColumns, rows |-> r] :
     r \in UNION {[1..n -> TwoFactorRows] : n \in 0..MaxRowsAnyOrder}}

InitAnyOrder ==
  /\ df \in FramesAnyOrder
  /\ x = <<>>
  /\ grp = <<>>
  /\ grp_median = <<>>
  /\ grp_sizes = <<>>
  /\ grp_size_tbl = <<>>
  /\ gms = <<>>
  /\ out = Shown(<<>>)
  /\ pc = 0

\* the reader runs any cell at any time, any number of times
NextAnyOrder ==
  \/ CellIsnullMean
  \/ CellDropna
  \/ CellXSize
  \/ CellDescribe
  \/ CellThousands
  \/ CellGroupDescribe
  \/ CellSortValues
  \/ CellGroupby
  \/ CellGrpMedian
  \/ CellGrpSizes
  \/ CellGrpSizeTbl
  \/ CellGms

SpecAnyOrder == InitAnyOrder /\ [][NextAnyOrder]_vars

\* the lists of grouping columns unstack is tried on
UnstackBys ==
  {<<"FES">>, <<"REGION">>, <<"REGION", "FES">>, <<"REGION", "FES", "HINCP">>}

\* df.groupby(by).size().unstack() for a list by of grouping columns
ApplyUnstack ==
  /\ pc = 0
  /\ \E by \in UnstackBys :
       LET r == SeriesUnstack(GroupSize(df, by), Len(by))
       IN out' = [type |-> r.type, val |-> [by |-> by, table |-> r.val]]
  /\ pc' = 13
  /\ UNCHANGED <<df, x, grp, grp_median, grp_sizes, grp_size_tbl, gms>>

\* unstack as a function of the grouped Series it is applied to
SpecUnstack == Init /\ [][ApplyUnstack]_vars

(* ------------------------ reference notions --------------------------- *)
\* The properties below are stated over sets of record numbers of df, by
\* counting, without the sequences the operations above work on.

\* the records of frame whose value in column c is present
Present(frame, c) == {i \in 1..Len(frame.rows) : ~IsNaN(frame.rows[i][c])}

\* the records of frame whose grouping key for by is k
Stratum(frame, by, k) ==
  {i \in 1..Len(frame.rows) : KeyOf(frame.rows[i], by) = k}

\* the sum of column c over the records I
RECURSIVE SumOver(_, _, _)
SumOver(frame, c, I) ==
  IF I = {} THEN Num(0)
  ELSE LET i == CHOOSE j \in I : TRUE
       IN FAdd(frame.rows[i][c], SumOver(frame, c, I \ {i}))

\* the sum of the squares of column c over the records I
RECURSIVE SumSqOver(_, _, _)
SumSqOver(frame, c, I) ==
  IF I = {} THEN Num(0)
  ELSE LET i == CHOOSE j \in I : TRUE
       IN FAdd(FMul(frame.rows[i][c], frame.rows[i][c]),
               SumSqOver(frame, c, I \ {i}))

\* the k-th smallest value of column c among the records I (1 <= k <= |I|)
OrderStat(frame, c, I, k) ==
  LET v(i) == frame.rows[i][c]
      i == CHOOSE j \in I :
             /\ Cardinality({h \in I : FLess(v(h), v(j))}) < k
             /\ k <= Cardinality({h \in I : FLeq(v(h), v(j))})
  IN v(i)

\* the a/b quantile of column c among the records I, by linear interpolation
RefQuantile(frame, c, I, a, b) ==
  LET n == Cardinality(I)
      lo == ((n - 1) * a) \div b
      r == ((n - 1) * a) % b
  IN IF r = 0 THEN OrderStat(frame, c, I, lo + 1)
     ELSE FAdd(FMul(Frac(b - r, b), OrderStat(frame, c, I, lo + 1)),
               FMul(Frac(r, b), OrderStat(frame, c, I, lo + 2)))

\* rec is the summary of the present values of column c among the records I
IsSummaryOf(rec, frame, c, I) ==
  LET n == Cardinality(I)
      sum == SumOver(frame, c, I)
  IN /\ rec.count = Num(n)
     /\ IF n = 0
        THEN /\ rec.mean = NaN /\ rec.min = NaN /\ rec.max = NaN
             /\ rec.q25 = NaN /\ rec.q50 = NaN /\ rec.q75 = NaN
        ELSE /\ FMul(rec.mean, Num(n)) = sum
             /\ rec.min = OrderStat(frame, c, I, 1)
             /\ rec.max = OrderStat(frame, c, I, n)
             /\ rec.q25 = RefQuantile(frame, c, I, 1, 4)
             /\ rec.q50 = RefQuantile(frame, c, I, 1, 2)
             /\ rec.q75 = RefQuantile(frame, c, I, 3, 4)
     /\ IF n < 2 THEN rec.std = NaN
        ELSE FMul(rec.std, Num(n * (n - 1))) =
               FSub(FMul(Num(n), SumSqOver(frame, c, I)), FMul(sum, sum))

ByRegionFES == <<"REGION", "FES">>
ByFES == <<"FES">>

\* the last cell ran without error
Ok == out.type = "ok"

(* ------------------------------ claims -------------------------------- *)
\* C1 (as stated): grouping df on [REGION, FES] partitions df exactly, also
\* when grouping values are missing: every record lies in exactly one
\* stratum and the sizes of grp.size() sum to the number of records of df.
C1_PartitionsAllRecords ==
  pc = 8 =>
    /\ \A i \in 1..Len(df.rows) :
         Cardinality({n \in 1..Len(out.val) :
                        out.val[n].key = KeyOf(df.rows[i], ByRegionFES)}) = 1
    /\ SumSeq([n \in 1..Len(out.val) |-> out.val[n].val]) = Num(Len(df.rows))

\* C1 (amended): grouping df on [REGION, FES] partitions exactly the records
\* whose grouping values are all present: each of them lies in exactly one
\* stratum, a record with a missing grouping value lies in none, the keys
\* are pairwise distinct, each size of grp.size() is the number of records
\* of its stratum (a missing income is counted), and the sizes sum to the
\* number of records whose grouping values are all present.
C1_PartitionsKeyedRecords ==
  pc = 8 =>
    /\ \A i \in 1..Len(df.rows) :
         Cardinality({n \in 1..Len(out.val) :
                        out.val[n].key = KeyOf(df.rows[i], ByRegionFES)})
           = IF HasNaN(KeyOf(df.rows[i], ByRegionFES)) THEN 0 ELSE 1
    /\ \A n, m \in 1..Len(out.val) :
         out.val[n].key = out.val[m].key => n = m
    /\ \A n \in 1..Len(out.val) :
         out.val[n].val =
           Num(Cardinality(Stratum(df, ByRegionFES, out.val[n].key)))
    /\ SumSeq([n \in 1..Len(out.val) |-> out.val[n].val]) =
         Num(Cardinality(Present(df, "REGION") \cap Present(df, "FES")))

\* C1 witness: grp.size() of a frame with a record without FES and a
\* stratum of two records one of which has no income
C1_Witness ==
  /\ pc = 8
  /\ Present(df, "FES") # 1..Len(df.rows)
  /\ \E n \in 1..Len(out.val) :
       /\ out.val[n].val = Num(2)
       /\ Stratum(df, ByRegionFES, out.val[n].key) \ Present(df, "HINCP") # {}

\* the grouping columns of the table the cell pc displays
ByOf(cell) == IF cell = 6 THEN ByFES ELSE ByRegionFES

\* C2 (as stated): a record whose FES is missing is not excluded: the output
\* of the grouping (describe, sizes, median) has a key with the absent
\* marker in that component, the key of the record.
C2_MissingKeyIsAStratum ==
  (pc \in {6, 8, 9} /\ Ok) =>
    \A i \in 1..Len(df.rows) :
      IsNaN(df.rows[i]["FES"]) =>
        \E n \in 1..Len(out.val) :
          out.val[n].key = KeyOf(df.rows[i], ByOf(pc))

\* C2 (amended): a record whose value in a grouping column is missing is
\* excluded: no key of the output of the grouping (describe, sizes, median)
\* carries the absent marker, and the keys are exactly the keys of the
\* records whose grouping values are all present.
C2_MissingKeyIsDropped ==
  (pc \in {6, 8, 9} /\ Ok) =>
    /\ \A n \in 1..Len(out.val) : ~HasNaN(out.val[n].key)
    /\ {out.val[n].key : n \in 1..Len(out.val)} =
         {KeyOf(df.rows[i], ByOf(pc)) :
            i \in {j \in 1..Len(df.rows) :
                     ~HasNaN(KeyOf(df.rows[j], ByOf(pc)))}}

\* C2 witness: a grouped describe of a frame with a record without FES and
\* a record with FES
C2_Witness ==
  /\ pc = 6 /\ Ok
  /\ Len(out.val) >= 1
  /\ \E i \in 1..Len(df.rows) : IsNaN(df.rows[i]["FES"])

\* C3: in a grouped describe, and in describe on a whole column, count is
\* the number of non-missing target values of the stratum, and mean, std,
\* min, the quartiles and max are those of exactly these values.
C3_SummaryOfPresentValues ==
  /\ (pc = 6 /\ Ok) =>
       \A n \in 1..Len(out.val) :
         IsSummaryOf(out.val[n].val, df, "HINCP_1000",
                     Stratum(df, ByFES, out.val[n].key)
                       \cap Present(df, "HINCP_1000"))
  /\ pc = 4 => IsSummaryOf(out.val, df, "HINCP", Present(df, "HINCP"))
  /\ pc = 5 =>
       IsSummaryOf(out.val, df, "HINCP_1000", Present(df, "HINCP_1000"))

\* C3 witness: a stratum of three records, one without income and two with
\* different incomes
C3_Witness ==
  /\ pc = 6 /\ Ok
  /\ \E n \in 1..Len(out.val) :
       /\ Cardinality(Stratum(df, ByFES, out.val[n].key)) = 3
       /\ out.val[n].val.count = Num(2)
       /\ FLess(out.val[n].val.min, out.val[n].val.max)

\* C4: a stratum all of whose target values are missing still appears in
\* the grouped summary, with count zero and with mean, std, min, the three
\* percentiles and max absent; its grouped median is absent.
C4_AllMissingStratum ==
  /\ (pc = 6 /\ Ok) =>
       \A i \in Present(df, "FES") :
         Stratum(df, ByFES, KeyOf(df.rows[i], ByFES))
             \cap Present(df, "HINCP_1000") = {} =>
           \E n \in 1..Len(out.val) :
             /\ out.val[n].key = KeyOf(df.rows[i], ByFES)
             /\ out.val[n].val.count = Num(0)
             /\ \A f \in {"mean", "std", "min", "q25", "q50", "q75", "max"} :
                  out.val[n].val[f] = NaN
  /\ (pc = 9 /\ Ok) =>
       \A i \in Present(df, "FES") :
         Stratum(df, ByRegionFES, KeyOf(df.rows[i], ByRegionFES))
             \cap Present(df, "HINCP_1000") = {} =>
           \E n \in 1..Len(out.val) :
             /\ out.val[n].key = KeyOf(df.rows[i], ByRegionFES)
             /\ out.val[n].val = NaN

\* C4 witness: a grouped describe with a stratum without any income and a
\* stratum with incomes
C4_Witness ==
  /\ pc = 6 /\ Ok
  /\ \E n, m \in 1..Len(out.val) :
       /\ out.val[n].val.count = Num(0)
       /\ out.val[m].val.count = Num(2)

\* the Series the cell pc unstacks
Unstacked(cell) ==
  IF cell = 11 THEN GroupSize(df, ByRegionFES) ELSE grp_median[1]

\* C5: unstack of a result keyed by (REGION, FES) is a complete rectangular
\* table: the row labels are the sorted distinct REGION values of the keys,
\* the column labels the sorted distinct FES values of the keys, there are
\* rows x columns cells, and cell (r, c) is the value of key (r, c) when
\* the key was observed and absent otherwise.
C5_UnstackIsRectangular ==
  (pc \in {11, 12} /\ Ok) =>
    LET t == out.val
        ser == Unstacked(pc)
    IN /\ Range(t.index) = {ser[n].key[1] : n \in 1..Len(ser)}
       /\ Range(t.columns) = {ser[n].key[2] : n \in 1..Len(ser)}
       /\ \A i \in 1..(Len(t.index) - 1) : FLess(t.index[i], t.index[i + 1])
       /\ \A j \in 1..(Len(t.columns) - 1) :
            FLess(t.columns[j], t.columns[j + 1])
       /\ Len(t.data) = Len(t.index)
       /\ \A i \in 1..Len(t.index) :
            /\ Len(t.data[i]) = Len(t.columns)
            /\ \A j \in 1..Len(t.columns) :
                 /\ \A n \in 1..Len(ser) :
                      ser[n].key = <<t.index[i], t.columns[j]>> =>
                        t.data[i][j] = ser[n].val
                 /\ (\A n \in 1..Len(ser) :
                       ser[n].key # <<t.index[i], t.columns[j]>>) =>
                      t.data[i][j] = NaN

\* C5 witness: the size table of a frame with two regions and two family
\* types of which fewer than four combinations are observed
C5_Witness ==
  /\ pc = 11 /\ Ok
  /\ Len(out.val.index) = 2
  /\ Len(out.val.columns) = 2
  /\ Len(GroupSize(df, ByRegionFES)) < 4
  /\ \E i, j \in 1..2 : out.val.data[i][j] = NaN

\* the table sort_values is applied to in cell 7
Summaries == GroupDescribe(df, ByFES, "HINCP_1000")

\* C6: sort_values(by = "50%") returns a permutation of the strata, ordered
\* by the median in the direction asked for, in which every stratum whose
\* median is absent comes after every stratum whose median is defined,
\* ascending and descending.
C6_SortAbsentLast ==
  (pc = 7 /\ Ok) =>
    LET t == out.val.table
        q(i) == t[i].val.q50
    IN /\ Len(t) = Len(Summaries)
       /\ Range(t) = Range(Summaries)
       /\ \A i, j \in 1..Len(t) :
            i < j =>
              /\ IsNaN(q(i)) => IsNaN(q(j))
              /\ (~IsNaN(q(i)) /\ ~IsNaN(q(j))) =>
                   IF out.val.ascending THEN FLeq(q(i), q(j))
                                        ELSE FLeq(q(j), q(i))

\* C6 witness: strata 1, 2, 3 of which 2 has no median and 3 has a smaller
\* median than 1, sorted ascending into 3, 1, 2
C6_Witness ==
  /\ pc = 7 /\ Ok
  /\ out.val.ascending
  /\ Len(out.val.table) = 3
  /\ out.val.table[1].key = <<Num(3)>>
  /\ out.val.table[2].key = <<Num(1)>>
  /\ out.val.table[3].key = <<Num(2)>>
  /\ FLess(out.val.table[1].val.q50, out.val.table[2].val.q50)
  /\ IsNaN(out.val.table[3].val.q50)

\* C7 (as stated): two strata with equal medians, or both without median,
\* come in the lexical order of their keys, ascending and descending.
C7_TiesInKeyOrder ==
  (pc = 7 /\ Ok) =>
    LET t == out.val.table
    IN \A i, j \in 1..Len(t) :
         (i < j /\ t[i].val.q50 = t[j].val.q50) => KeyLess(t[i].key, t[j].key)

\* C7 (amended): two strata both without median come in the lexical order
\* of their keys, ascending and descending; the order of two strata with
\* equal defined medians is not determined.
C7_AbsentInKeyOrder ==
  (pc = 7 /\ Ok) =>
    LET t == out.val.table
    IN \A i, j \in 1..Len(t) :
         (i < j /\ IsNaN(t[i].val.q50) /\ IsNaN(t[j].val.q50)) =>
           KeyLess(t[i].key, t[j].key)

\* C7 witness: a descending sort of three strata two of which have no median
C7_Witness ==
  /\ pc = 7 /\ Ok
  /\ ~out.val.ascending
  /\ Len(out.val.table) = 3
  /\ ~IsNaN(out.val.table[1].val.q50)
  /\ IsNaN(out.val.table[2].val.q50)
  /\ IsNaN(out.val.table[3].val.q50)

\* the number of records of df without a value in column c
Missing(c) == Cardinality((1..Len(df.rows)) \ Present(df, c))

\* C8 (as stated): for every data set, isnull().mean() maps every column to
\* the number of records without a value divided by the number of records,
\* a proportion between 0 and 1.
C8_ProportionForEveryFrame ==
  pc = 1 =>
    \A n \in 1..Len(out.val) :
      /\ FLeq(Num(0), out.val[n].val) /\ FLeq(out.val[n].val, Num(1))
      /\ FMul(out.val[n].val, Num(Len(df.rows))) = Num(Missing(out.val[n].col))

\* C8 (amended): for every data set with at least one record,
\* isnull().mean() maps every column, in column order, to the number of
\* records without a value divided by the number of records, a proportion
\* between 0 and 1; for a data set without records it maps every column to
\* the absent marker.
C8_ProportionUnlessEmpty ==
  pc = 1 =>
    /\ Len(out.val) = Len(df.columns)
    /\ \A n \in 1..Len(out.val) :
         /\ out.val[n].col = df.columns[n]
         /\ IF df.rows = <<>> THEN out.val[n].val = NaN
            ELSE /\ FLeq(Num(0), out.val[n].val)
                 /\ FLeq(out.val[n].val, Num(1))
                 /\ FMul(out.val[n].val, Num(Len(df.rows))) =
                      Num(Missing(out.val[n].col))

\* C8 witness: a report with a column half of whose values are missing and
\* a column without a missing value
C8_Witness ==
  /\ pc = 1
  /\ \E n, m \in 1..Len(out.val) :
       out.val[n].val = Frac(1, 2) /\ out.val[m].val = Num(0)

\* the cells that report, group, summarise, sort or reshape
Aggregations == {1, 4, 6, 7, 8, 9, 10, 11, 12}

\* C9: a missingness report, grouping, describe, median, sort_values,
\* reset_index or unstack leaves df as it was (the same records, columns
\* and values), and unstack leaves the Series it is applied to as it was:
\* grp_median is untouched by the unstack of the sizes, and after
\* gms = grp_median.unstack() it still is the Series of the medians.
C9_AggregationsReadOnly ==
  [][pc' \in Aggregations =>
       /\ df' = df
       /\ pc' = 11 => grp_median' = grp_median
       /\ (pc' = 12 /\ out'.type = "ok") =>
            grp_median' = <<GroupMedian(df, ByRegionFES, "HINCP")>>]_vars

\* C9 witness: every cell has run on a frame with records
C9_Witness ==
  /\ pc = 12 /\ Ok
  /\ Len(df.rows) = MaxRows
  /\ grp_median # <<>> /\ gms # <<>> /\ grp_size_tbl # <<>>

\* C10 (as stated): grouping and summarising a data set without records
\* fails with an EmptyDatasetError.
C10_EmptyRaises ==
  (pc \in {6, 8, 9} /\ df.rows = <<>>) => out.type = "EmptyDatasetError"

\* C10 (amended): grouping and summarising a data set without records
\* raises no error: describe, size and median return a result without
\* strata.
C10_EmptyGivesNoStrata ==
  (pc \in {6, 8, 9} /\ df.rows = <<>>) => (Ok /\ out.val = <<>>)

\* C10 witness: the sizes of the groups of a frame without records
C10_Witness == pc = 8 /\ df.rows = <<>>

\* C11: grouping and summarising HINCP_1000 while df has no such column
\* (the cell that creates it has not run) fails with a column-not-found
\* error (KeyError) before producing any output: nothing is displayed, no
\* notebook variable is assigned and df is unchanged.
C11_MissingColumnRaises ==
  [][(/\ pc' \in {6, 7, 9}
      /\ ~HasColumn(df, "HINCP_1000")
      /\ pc' = 9 => grp # <<>>) =>
       /\ out' = Raised("KeyError")
       /\ UNCHANGED <<df, x, grp, grp_median, grp_sizes, grp_size_tbl, gms>>]_vars

\* C11 witness: the grouped median was asked for, after grp was made, on a
\* frame with a record and without the column HINCP_1000
C11_Witness ==
  /\ pc = 9
  /\ out.type = "KeyError"
  /\ grp # <<>>
  /\ df.rows # <<>>
  /\ ~HasColumn(df, "HINCP_1000")

RegionLevels == {Num(r) : r \in 1..NumRegion}
FESLevels == {Num(c) : c \in 1..NumFES}

\* the records of df carry REGION and FES values of the data dictionary
InDictionary ==
  \A i \in 1..Len(df.rows) :
    /\ IsNaN(df.rows[i].REGION) \/ df.rows[i].REGION \in RegionLevels
    /\ IsNaN(df.rows[i].FES) \/ df.rows[i].FES \in FESLevels

\* C13 (as stated): for REGION in 1..4 and FES in 1..8 the unstacked medians
\* gms are a grid of 4 rows and 8 columns.
C13_GridIsFourByEight ==
  (pc = 12 /\ InDictionary) =>
    /\ Len(gms[1].index) = NumRegion
    /\ Len(gms[1].columns) = NumFES

\* C13 (amended): for REGION in 1..4 and FES in 1..8, grouping on
\* [REGION, FES] gives at most 32 strata, and the unstacked medians gms have
\* one row per observed REGION (at most 4, not always 4) and one column per
\* observed FES (at most 8, not always 8); every stratum is a cell of that
\* grid, and a cell whose (REGION, FES) pair has no record is absent.
C13_GridOfObservedLevels ==
  (pc = 12 /\ InDictionary) =>
    LET strata == grp_median[1]
        t == gms[1]
    IN /\ Len(strata) <= NumRegion * NumFES
       /\ Len(strata) <= Len(t.index) * Len(t.columns)
       /\ Range(t.index) = {strata[n].key[1] : n \in 1..Len(strata)}
       /\ Range(t.columns) = {strata[n].key[2] : n \in 1..Len(strata)}
       /\ Range(t.index) \subseteq RegionLevels
       /\ Range(t.columns) \subseteq FESLevels
       /\ Len(t.index) = Cardinality(Range(t.index))
       /\ Len(t.columns) = Cardinality(Range(t.columns))
       /\ Len(t.index) <= NumRegion
       /\ Len(t.columns) <= NumFES
       /\ \A i \in 1..Len(t.index) : \A j \in 1..Len(t.columns) :
            Stratum(df, ByRegionFES, <<t.index[i], t.columns[j]>>) = {} =>
              t.data[i][j] = NaN

\* C13 witness: gms has two rows and two columns, fewer than the data
\* dictionary has levels; one cell is a median and another, whose pair has
\* no record, is absent
C13_Witness ==
  /\ pc = 12 /\ InDictionary
  /\ Len(gms[1].index) = 2
  /\ Len(gms[1].columns) = 2
  /\ \E i, j \in 1..2 :
       /\ Stratum(df, ByRegionFES, <<gms[1].index[i], gms[1].columns[j]>>) = {}
       /\ gms[1].data[i][j] = NaN
  /\ \E i, j \in 1..2 : ~IsNaN(gms[1].data[i][j])

\* the record of frame that holds the k-th present value of column c
NthPresent(frame, c, k) ==
  CHOOSE i \in Present(frame, c) :
    Cardinality({j \in Present(frame, c) : j <= i}) = k

\* C14: once x = df["RNTP"].dropna() has run, x holds exactly the RNTP
\* values that are present, in the order of their records: it has as many
\* values as df has records with RNTP present, its k-th value is the RNTP of
\* the k-th such record, and none is absent; x.size displays that number;
\* the cell leaves df as it was, records with RNTP absent included.
C14_DropnaKeepsPresentInOrder ==
  /\ [](x # <<>> =>
          /\ Len(x[1]) = Cardinality(Present(df, "RNTP"))
          /\ \A k \in 1..Len(x[1]) :
               /\ ~IsNaN(x[1][k])
               /\ x[1][k] = df.rows[NthPresent(df, "RNTP", k)].RNTP
          /\ pc = 3 => out = Shown(Cardinality(Present(df, "RNTP"))))
  /\ [][pc' = 2 => df' = df]_vars

\* C14 witness: x.size has displayed 2 for a df of three records whose
\* first RNTP is absent and whose other two RNTP values differ
C14_Witness ==
  /\ pc = 3 /\ out = Shown(2)
  /\ Len(df.rows) = 3
  /\ IsNaN(df.rows[1].RNTP)
  /\ x = <<(<<df.rows[2].RNTP, df.rows[3].RNTP>>)>>
  /\ df.rows[2].RNTP # df.rows[3].RNTP

C16_SizeAndMedianShareKeys ==
  /\ pc >= 10 =>
       /\ Len(grp_sizes[1].rows) = Len(grp_median[1])
       /\ \A n \in 1..Len(grp_median[1]) :
            KeyOf(grp_sizes[1].rows[n], ByRegionFES) = grp_median[1][n].key
  /\ pc = 12 =>
       /\ grp_size_tbl[1].index = gms[1].index
       /\ grp_size_tbl[1].columns = gms[1].columns
       /\ \A i \in 1..Len(gms[1].index) : \A j \in 1..Len(gms[1].columns) :
            IsNaN(grp_size_tbl[1].data[i][j]) => IsNaN(gms[1].data[i][j])

\* C16 witness: of two tables of two rows and two columns, one cell is
\* absent in both, and another has a size and an absent median (every
\* income of its stratum is missing)
C16_Witness ==
  /\ pc = 12
  /\ Len(gms[1].index) = 2
  /\ Len(gms[1].columns) = 2
  /\ \E i, j \in 1..2 :
       IsNaN(grp_size_tbl[1].data[i][j]) /\ IsNaN(gms[1].data[i][j])
  /\ \E i, j \in 1..2 :
       ~IsNaN(grp_size_tbl[1].data[i][j]) /\ IsNaN(gms[1].data[i][j])

====
